---- MODULE Spec2Model ----
(***************************************************************************)
(* Model of src/native/heap.rs: a binary min-heap whose items can be       *)
(* removed through a slab-indexed handle (Slot).                           *)
(*                                                                         *)
(* Array positions and handle ids are 0-based as in the Rust code; TLA+    *)
(* sequences are 1-based, so At(s, i) reads s[i + 1].                      *)
(* An item is the tuple <<t, slot_idx>>  (Rust: (T, usize)).               *)
(*                                                                         *)
(* Also modelled: the Delay future of src/lib.rs (poll, reset) against a   *)
(* clock, and the duration conversion of the wasm Delay (delay_wasm.rs).   *)
(***************************************************************************)
EXTENDS Integers, Sequences, FiniteSets, Bags, TLC

\* ---------------------------------------------------------------- bounds
MaxVal == 3
MaxItems == 4
MaxHeap == 7
MaxRun == 5
MaxStale == 1
MaxMisuse == 3
MaxDur == 2
MaxClock == 3
MaxResets == 1

Values == 1..MaxVal

\* ------------------------------------------------------------- data model
None == [none |-> TRUE]
Some(x) == [some |-> x]

NoPanic == "none"

Full(v) == [tag |-> "Full", value |-> v]

Empty(n) == [tag |-> "Empty", next |-> n]

Slot(i) == [idx |-> i]

At(s, i) == s[i + 1]

InRange(s, i) == i >= 0 /\ i < Len(s)

Put(s, i, x) == [s EXCEPT ![i + 1] = x]

\* mem::swap of two array positions
SwapItems(s, i, j) == [s EXCEPT ![i + 1] = s[j + 1], ![j + 1] = s[i + 1]]

\* Vec::remove: the elements after position i shift down by one
ShiftRemove(s, i) ==
  [k \in 1..(Len(s) - 1) |-> IF k <= i THEN s[k] ELSE s[k + 1]]

\* Vec::swap_remove: the last element takes the place of position i
SwapRemove(s, i) ==
  IF i = Len(s) - 1 THEN SubSeq(s, 1, Len(s) - 1)
  ELSE SubSeq(Put(s, i, s[Len(s)]), 1, Len(s) - 1)

\* Heap::new, with the bookkeeping of one call: swaps counts the item swaps
\* of the call's percolation loop, panic names the check that aborted it.
new == [items |-> <<>>, index |-> <<>>, next_index |-> 0,
        swaps |-> 0, panic |-> NoPanic]

Abort(h, why) == [h EXCEPT !.panic = why]

\* ------------------------------------------------------------- set_index
set_index(h, slab_slot, val) ==
  IF h.panic # NoPanic THEN h
  ELSE IF ~InRange(h.index, slab_slot) THEN Abort(h, "bounds")
  ELSE IF At(h.index, slab_slot).tag = "Full"
       THEN [h EXCEPT !.index = Put(h.index, slab_slot, Full(val))]
       ELSE Abort(h, "set_index")

\* ---------------------------------------------------------- percolate_up
\* percolate_up that compares with the previous array position, not the parent
RECURSIVE percolate_up_linear(_, _)
percolate_up_linear(h, idx) ==
  IF h.panic # NoPanic \/ ~(idx > 0) THEN h
  ELSE LET parent == idx - 1 IN
       IF At(h.items, idx)[1] >= At(h.items, parent)[1] THEN h
       ELSE LET sw == [h EXCEPT !.items = SwapItems(h.items, parent, idx),
                                !.swaps = @ + 1]
                s1 == set_index(sw, At(sw.items, parent)[2], parent)
                s2 == set_index(s1, At(s1.items, idx)[2], idx)
            IN percolate_up_linear(s2, parent)

\* percolate_up that updates the slab entry of only one of the swapped items
RECURSIVE percolate_up_one_entry(_, _)
percolate_up_one_entry(h, idx) ==
  IF h.panic # NoPanic \/ ~(idx > 0) THEN h
  ELSE LET parent == (idx - 1) \div 2 IN
       IF At(h.items, idx)[1] >= At(h.items, parent)[1] THEN h
       ELSE LET sw == [h EXCEPT !.items = SwapItems(h.items, parent, idx),
                                !.swaps = @ + 1]
                s1 == set_index(sw, At(sw.items, parent)[2], parent)
            IN percolate_up_one_entry(s1, parent)

RECURSIVE percolate_up(_, _)
percolate_up(h, idx) ==
  IF h.panic # NoPanic \/ ~(idx > 0) THEN h
  ELSE LET parent == (idx - 1) \div 2 IN
       IF At(h.items, idx)[1] >= At(h.items, parent)[1] THEN h
       ELSE LET sw == [h EXCEPT !.items = SwapItems(h.items, parent, idx),
                                !.swaps = @ + 1]
                s1 == set_index(sw, At(sw.items, parent)[2], parent)
                s2 == set_index(s1, At(s1.items, idx)[2], idx)
            IN percolate_up(s2, parent)

\* -------------------------------------------------------- percolate_down
\* DownChoice that never compares the two children with each other
DownChoiceLeftFirst(items, idx) ==
  LET left == 2 * idx + 1
      right == 2 * idx + 2
      cur == At(items, idx)[1]
  IN IF InRange(items, left) /\ At(items, left)[1] < cur THEN "left"
     ELSE IF InRange(items, right) /\ At(items, right)[1] < cur THEN "right"
     ELSE "stop"

\* "stop" = break, "left"/"right" = the child to swap with
DownChoice(items, idx) ==
  LET left == 2 * idx + 1
      right == 2 * idx + 2
      hasL == InRange(items, left)
      hasR == InRange(items, right)
      cur == At(items, idx)[1]
  IN IF hasL /\ ~hasR THEN
       (IF At(items, left)[1] >= cur THEN "stop" ELSE "left")
     ELSE IF hasL /\ hasR THEN
       (IF At(items, left)[1] < cur
        THEN (IF At(items, right)[1] < At(items, left)[1]
              THEN "right" ELSE "left")
        ELSE IF At(items, right)[1] < cur THEN "right"
        ELSE "stop")
     ELSE IF ~hasL /\ ~hasR THEN "stop"
     ELSE "not possible"

RECURSIVE percolate_down(_, _)
percolate_down(h, idx) ==
  IF h.panic # NoPanic THEN h
  ELSE LET c == DownChoice(h.items, idx) IN
       IF c = "stop" THEN h
       ELSE IF c = "not possible" THEN Abort(h, "not possible")
       ELSE LET child == IF c = "left" THEN 2 * idx + 1 ELSE 2 * idx + 2
                sw == [h EXCEPT !.items = SwapItems(h.items, idx, child),
                                !.swaps = @ + 1]
                s1 == set_index(sw, At(sw.items, idx)[2], idx)
                s2 == set_index(s1, At(s1.items, child)[2], child)
            IN percolate_down(s2, child)

\* ------------------------------------------------------------------ push
\* push that always grows the slab table
push_always_grow(h0, t) ==
  LET h == [h0 EXCEPT !.swaps = 0]
      len == Len(h.items)
      slot_idx == Len(h.index)
      h1 == [h EXCEPT !.index = Append(@, Full(len)),
                      !.items = Append(@, <<t, slot_idx>>)]
  IN [h |-> percolate_up(h1, len), slot |-> Slot(slot_idx)]

\* push that reuses a freed handle id without storing the Full entry
push_unstored(h0, t) ==
  LET h == [h0 EXCEPT !.swaps = 0]
      len == Len(h.items)
      grown == h.next_index = Len(h.index)
      slot_idx == IF grown THEN Len(h.index) ELSE h.next_index
      h1 == IF grown
            THEN [h EXCEPT !.next_index = @ + 1,
                           !.index = Append(@, Full(len))]
            ELSE [h EXCEPT !.next_index = At(h.index, h.next_index).next]
  IN [h |-> [h1 EXCEPT !.items = Append(@, <<t, slot_idx>>)],
      slot |-> Slot(slot_idx)]

\* Result: [h |-> heap after the call, slot |-> the Slot returned]
push(h0, t) ==
  LET h == [h0 EXCEPT !.swaps = 0]
      len == Len(h.items)
      slot == Full(len)
      grown == h.next_index = Len(h.index)
      old == IF grown THEN Empty(0) ELSE At(h.index, h.next_index)
      slot_idx == IF grown THEN Len(h.index) ELSE h.next_index
      h1 == IF grown
            THEN [h EXCEPT !.next_index = @ + 1,
                           !.index = Append(@, slot)]
            ELSE IF ~InRange(h.index, h.next_index) THEN Abort(h, "bounds")
            ELSE IF old.tag = "Empty"
                 THEN [h EXCEPT !.index = Put(@, h.next_index, slot),
                                !.next_index = old.next]
                 ELSE Abort([h EXCEPT !.index = Put(@, h.next_index, slot)],
                            "push")
      h2 == IF h1.panic # NoPanic THEN h1
            ELSE percolate_up([h1 EXCEPT !.items = Append(@, <<t, slot_idx>>)],
                              len)
  IN [h |-> h2, slot |-> Slot(slot_idx)]

\* ------------------------------------------------------------------ peek
peek(h) == IF Len(h.items) = 0 THEN None ELSE Some(At(h.items, 0)[1])

\* ---------------------------------------------------------------- remove
\* Repair that does not record the new position of the moved item
RepairNoIndex(h, idx, item) ==
  IF h.panic = NoPanic /\ idx < Len(h.items)
  THEN IF At(h.items, idx)[1] < item
       THEN percolate_up(h, idx)
       ELSE percolate_down(h, idx)
  ELSE h

\* Repair with the two directions exchanged
RepairInverted(h, idx, item) ==
  IF h.panic = NoPanic /\ idx < Len(h.items)
  THEN LET s == set_index(h, At(h.items, idx)[2], idx) IN
       IF At(s.items, idx)[1] < item
       THEN percolate_down(s, idx)
       ELSE percolate_up(s, idx)
  ELSE h

\* Repair that always percolates up
RepairUpOnly(h, idx, item) ==
  IF h.panic = NoPanic /\ idx < Len(h.items)
  THEN percolate_up(set_index(h, At(h.items, idx)[2], idx), idx)
  ELSE h

\* Repair that always percolates down
RepairDownOnly(h, idx, item) ==
  IF h.panic = NoPanic /\ idx < Len(h.items)
  THEN percolate_down(set_index(h, At(h.items, idx)[2], idx), idx)
  ELSE h

\* The repair of remove (heap.rs 97-104) on the array right after swap_remove
Repair(h, idx, item) ==
  IF h.panic = NoPanic /\ idx < Len(h.items)
  THEN LET s == set_index(h, At(h.items, idx)[2], idx) IN
       IF s.panic # NoPanic THEN s
       ELSE IF At(s.items, idx)[1] < item
            THEN percolate_up(s, idx)
            ELSE percolate_down(s, idx)
  ELSE h

\* remove that returns nothing, without a panic, when the entry is Empty
remove_silent(h0, slot) ==
  LET h == [h0 EXCEPT !.swaps = 0] IN
  IF ~InRange(h.index, slot.idx) \/ At(h.index, slot.idx).tag = "Empty"
  THEN [h |-> h, item |-> None]
  ELSE LET idx == At(h.index, slot.idx).value
           removed == At(h.items, idx)
           h3 == [h EXCEPT !.index = Put(@, slot.idx, Empty(h.next_index)),
                           !.next_index = slot.idx,
                           !.items = SwapRemove(@, idx)]
       IN [h |-> Repair(h3, idx, removed[1]), item |-> Some(removed[1])]

\* remove that does not make the freed entry the head of the free list
remove_no_head(h0, slot) ==
  LET h == [h0 EXCEPT !.swaps = 0] IN
  IF ~InRange(h.index, slot.idx) \/ At(h.index, slot.idx).tag = "Empty"
  THEN [h |-> Abort(h, "remove"), item |-> None]
  ELSE LET idx == At(h.index, slot.idx).value
           removed == At(h.items, idx)
           h3 == [h EXCEPT !.index = Put(@, slot.idx, Empty(h.next_index)),
                           !.items = SwapRemove(@, idx)]
       IN [h |-> Repair(h3, idx, removed[1]), item |-> Some(removed[1])]

\* Result: [h |-> heap after the call, item |-> the value returned]
remove(h0, slot) ==
  LET h == [h0 EXCEPT !.swaps = 0]
      empty == Empty(h.next_index)
  IN IF ~InRange(h.index, slot.idx)
     THEN [h |-> Abort(h, "bounds"), item |-> None]
     ELSE LET old == At(h.index, slot.idx)
              h1 == [h EXCEPT !.index = Put(@, slot.idx, empty)]
          IN IF old.tag = "Empty"
             THEN [h |-> Abort(h1, "remove"), item |-> None]
             ELSE LET idx == old.value
                      h2 == [h1 EXCEPT !.next_index = slot.idx]
                  IN IF ~InRange(h2.items, idx)
                     THEN [h |-> Abort(h2, "bounds"), item |-> None]
                     ELSE LET removed == At(h2.items, idx)
                              h3 == [h2 EXCEPT !.items = SwapRemove(@, idx)]
                          IN IF slot.idx # removed[2]
                             THEN [h |-> Abort(h3, "debug_assert_eq"),
                                   item |-> None]
                             ELSE [h |-> Repair(h3, idx, removed[1]),
                                   item |-> Some(removed[1])]

\* ------------------------------------------------------------------- pop
\* pop that takes the item at the last array position
pop_last(h) ==
  IF Len(h.items) = 0 THEN [h |-> h, item |-> None]
  ELSE remove(h, Slot(At(h.items, Len(h.items) - 1)[2]))

\* pop without the is_empty test: items[0] is out of bounds on an empty heap
pop_unguarded(h) ==
  IF Len(h.items) = 0 THEN [h |-> Abort(h, "bounds"), item |-> None]
  ELSE remove(h, Slot(At(h.items, 0)[2]))

pop(h) ==
  IF Len(h.items) = 0 THEN [h |-> h, item |-> None]
  ELSE remove(h, Slot(At(h.items, 0)[2]))

\* ================================================================= Delay
\* DelayState (lib.rs 38-42); instants and durations are whole clock ticks.
Delay_new(dur) == [duration |-> dur, time_start |-> None]

\* reset that keeps the recorded start instant
reset_keep_start(state, dur) == [state EXCEPT !.duration = dur]

reset(state, dur) == [state EXCEPT !.duration = dur, !.time_start = None]

\* poll that compares the clock with the start instant, not the deadline
poll_no_duration(state, now_start, now) ==
  LET s == IF state.time_start = None
           THEN [state EXCEPT !.time_start = Some(now_start)]
           ELSE state
  IN IF now >= s.time_start.some
     THEN [state |-> s, ret |-> "Ready", wake |-> FALSE]
     ELSE [state |-> s, ret |-> "Pending", wake |-> TRUE]

\* poll that returns Pending without waking the task
poll_no_wake(state, now_start, now) ==
  LET s == IF state.time_start = None
           THEN [state EXCEPT !.time_start = Some(now_start)]
           ELSE state
  IN IF now >= s.time_start.some + s.duration
     THEN [state |-> s, ret |-> "Ready", wake |-> FALSE]
     ELSE [state |-> s, ret |-> "Pending", wake |-> FALSE]

\* <Delay as Future>::poll. now_start is the Instant::now() of line 78 (read
\* only when no start is recorded), now the Instant::now() of line 81.
\* wake: cx.waker().wake_by_ref() was called.
poll(state, now_start, now) ==
  LET s == IF state.time_start = None
           THEN [state EXCEPT !.time_start = Some(now_start)]
           ELSE state
      deadline == s.time_start.some + s.duration
  IN IF now >= deadline
     THEN [state |-> s, ret |-> "Ready", wake |-> FALSE]
     ELSE [state |-> s, ret |-> "Pending", wake |-> TRUE]

\* ============================================================ wasm Delay
\* A millisecond count is held as two limbs, [hi, lo] standing for
\* hi * 65536 + lo with lo < 65536, so that counts of 2^32 and more can be
\* told from their 32-bit truncation.
\* Duration::as_millis of a Duration of secs seconds and nanos nanoseconds:
\* secs * 1000 + nanos / 1_000_000
as_millis(dur) ==
  LET low == (dur.secs % 65536) * 1000 + dur.nanos \div 1000000
  IN [hi |-> (dur.secs \div 65536) * 1000 + low \div 65536,
      lo |-> low % 65536]

\* the cast `as u32`: the value modulo 2^32
as_u32(n) == [hi |-> n.hi % 65536, lo |-> n.lo]

\* a conversion that drops the whole seconds of the duration
wasm_timeout_subsec(dur) ==
  as_u32(as_millis([secs |-> 0, nanos |-> dur.nanos]))

\* the argument Delay::new hands to TimeoutFuture::new (delay_wasm.rs 16)
wasm_timeout(dur) == as_u32(as_millis(dur))

\* ========================================================== state machine
\* items, index, next_index: the fields of Heap (heap.rs 15-24).
\* panic: the check that aborted the program, NoPanic while it runs.
\* call:  the last call and what it returned (op, ret), the number of item
\*        swaps its percolation made (swaps), the array length while
\*        percolating (n), for pop and remove the array position the item
\*        was taken from (at), and, for remove, whether the Slot passed was
\*        live or stale (slot) and the value pushed with it (want).
\* live:  the caller's Slots whose item is still held, each with the value
\*        that was passed to the push that returned it (a reference multiset).
\* stale: handle ids of the Slots the caller has kept although their item was
\*        popped (pop does not consume the Slot, remove does), to pass them
\*        to remove later.
\* trace: in the round-trip scenario, the values pushed and the values
\*        popped so far, in call order.
\* freed: the handle ids freed by pop and remove and not issued again since,
\*        oldest first.
\* peak:  the largest number of items held at once so far.
VARIABLES items, index, next_index, panic, call, live, stale, trace,
          freed, peak

\* duration, time_start: the fields of DelayState (lib.rs 38-42).
\* clock:  the current instant.
\* since:  the instant at which the Delay was created or last reset.
\* asked:  the duration passed to that Delay::new or reset.
\* first_poll: the instant at which the first poll since then began, None
\*         before it.
\* polled: the result of the last poll since then (ret, "none" before it),
\*         the instant it compared with the deadline (at), and the result
\*         of the last poll before the latest reset (prev).
\* woken:  the task is scheduled to be polled.
\* resets: the number of calls of reset so far.
VARIABLES duration, time_start, clock, since, asked, first_poll, polled,
          woken, resets

\* wasm_dur: the Duration passed to the wasm Delay::new.
\* wasm_ms:  the millisecond count handed to the platform timer, None
\*           before the call.
VARIABLES wasm_dur, wasm_ms

hvars == <<items, index, next_index, panic, call, live, stale, trace,
           freed, peak>>

dvars == <<duration, time_start, clock, since, asked, first_poll, polled,
           woken, resets>>

wvars == <<wasm_dur, wasm_ms>>

vars == <<hvars, dvars, wvars>>

NotPolled == [ret |-> "none", at |-> 0, prev |-> "none"]

\* no Delay is in use
DelayIdle ==
  /\ duration = 0
  /\ time_start = None
  /\ clock = 0
  /\ since = 0
  /\ asked = 0
  /\ first_poll = None
  /\ polled = NotPolled
  /\ woken = FALSE
  /\ resets = 0

WasmIdle ==
  /\ wasm_dur = [secs |-> 0, nanos |-> 0]
  /\ wasm_ms = None

HeapIdle ==
  /\ items = new.items
  /\ index = new.index
  /\ next_index = new.next_index
  /\ panic = NoPanic
  /\ live = EmptyBag
  /\ stale = {}
  /\ freed = <<>>
  /\ peak = 0

H == [items |-> items, index |-> index, next_index |-> next_index,
      swaps |-> 0, panic |-> panic]

Call(op, ret, h, n, at, slot, want) ==
  [op |-> op, ret |-> ret, swaps |-> h.swaps, n |-> n, at |-> at,
   slot |-> slot, want |-> want]

\* the array position the slab records for handle id i
PosOf(i) ==
  IF InRange(index, i) /\ At(index, i).tag = "Full"
  THEN Some(At(index, i).value) ELSE None

Install(h) ==
  /\ items' = h.items
  /\ index' = h.index
  /\ next_index' = h.next_index
  /\ panic' = h.panic

LiveAt(i) == {s \in BagToSet(live) : s.idx = i}

\* the sequence seq without the entries equal to x
Without(seq, x) == SelectSeq(seq, LAMBDA y : y # x)

NoTrace == [pushed |-> <<>>, popped |-> <<>>]

Init ==
  /\ items = new.items
  /\ index = new.index
  /\ next_index = new.next_index
  /\ panic = NoPanic
  /\ call = Call("new", None, new, 0, None, "none", None)
  /\ live = EmptyBag
  /\ stale = {}
  /\ trace = NoTrace
  /\ freed = <<>>
  /\ peak = 0
  /\ DelayIdle
  /\ WasmIdle

PushCall(t) ==
  /\ panic = NoPanic
  /\ LET r == push(H, t) IN
     /\ Install(r.h)
     /\ call' = Call("push",
                     IF r.h.panic = NoPanic THEN Some(r.slot.idx) ELSE None,
                     r.h, Len(r.h.items), None, "none", None)
     /\ live' = IF r.h.panic = NoPanic
                THEN live (+) SetToBag({[idx |-> r.slot.idx, val |-> t]})
                ELSE live
     /\ freed' = IF r.h.panic = NoPanic THEN Without(freed, r.slot.idx)
                 ELSE freed
     /\ peak' = IF r.h.panic = NoPanic /\ Len(items) + 1 > peak
                THEN Len(items) + 1 ELSE peak
  /\ UNCHANGED <<stale, dvars, wvars>>

\* keep: the caller keeps the Slot of the popped item instead of dropping it
PopCall(keep) ==
  /\ panic = NoPanic
  /\ LET r == pop(H)
         gone == IF Len(items) = 0 THEN {} ELSE LiveAt(At(items, 0)[2])
     IN
     /\ Install(r.h)
     /\ call' = Call("pop", r.item, r.h, Len(r.h.items),
                     IF r.item = None THEN None ELSE Some(0), "none", None)
     /\ live' = live (-) SetToBag(gone)
     /\ stale' = IF keep THEN stale \cup {s.idx : s \in gone} ELSE stale
     /\ freed' = IF r.item = None THEN freed
                 ELSE Append(freed, At(items, 0)[2])
  /\ UNCHANGED <<peak, dvars, wvars>>

Push(t) ==
  /\ PushCall(t)
  /\ UNCHANGED trace

Peek ==
  /\ panic = NoPanic
  /\ call' = Call("peek", peek(H), H, Len(items), None, "none", None)
  /\ UNCHANGED <<items, index, next_index, panic, live, stale, trace,
                 freed, peak, dvars, wvars>>

Pop ==
  /\ PopCall(FALSE)
  /\ UNCHANGED trace

\* remove with a Slot whose item is still held (the handle contract)
Remove(s) ==
  /\ panic = NoPanic
  /\ s \in BagToSet(live)
  /\ LET r == remove(H, Slot(s.idx)) IN
     /\ Install(r.h)
     /\ call' = Call("remove", r.item, r.h, Len(r.h.items),
                     IF r.item = None THEN None ELSE PosOf(s.idx),
                     "live", Some(s.val))
     /\ live' = live (-) SetToBag({s})
     /\ freed' = IF r.item = None THEN freed ELSE Append(freed, s.idx)
  /\ UNCHANGED <<stale, trace, peak, dvars, wvars>>

Next ==
  \/ \E t \in Values : Len(items) < MaxItems /\ Push(t)
  \/ Peek
  \/ Pop
  \/ \E s \in BagToSet(live) : Remove(s)

Spec == Init /\ [][Next]_vars

\* ------------------------------------------------- misuse of the handles
PopKeep ==
  /\ Cardinality(stale) < MaxStale
  /\ Len(items) > 0
  /\ PopCall(TRUE)
  /\ UNCHANGED trace

\* remove with a Slot whose item was popped earlier (a contract violation).
\* The Slot is consumed; if the call removes the item that now uses the same
\* handle id, that item's Slot is the one the caller is left with.
RemoveStale(i) ==
  /\ panic = NoPanic
  /\ i \in stale
  /\ LET r == remove(H, Slot(i))
         gone == IF r.item = None THEN {} ELSE LiveAt(i)
     IN
     /\ Install(r.h)
     /\ call' = Call("remove", r.item, r.h, Len(r.h.items),
                     IF r.item = None THEN None ELSE PosOf(i),
                     "stale", None)
     /\ live' = live (-) SetToBag(gone)
     /\ stale' = IF gone = {} THEN stale \ {i} ELSE stale
     /\ freed' = IF r.item = None THEN freed ELSE Append(freed, i)
  /\ UNCHANGED <<trace, peak, dvars, wvars>>

NextMisuse ==
  \/ \E t \in Values : Len(items) < MaxMisuse /\ Push(t)
  \/ Peek
  \/ Pop
  \/ PopKeep
  \/ \E s \in BagToSet(live) : Remove(s)
  \/ \E i \in stale : RemoveStale(i)

SpecMisuse == Init /\ [][NextMisuse]_vars

\* ------------------------------------- one call on an arbitrary valid heap
\* Pushing vs[1], vs[2], ... onto Heap::new() when vs is heap-ordered makes
\* no swap, so the heap holding vs in array order with handle ids 0..n-1 and
\* an empty free list is a state of the program.
HeapOrdered(vs) ==
  \A i \in 2..Len(vs) : vs[i] >= vs[i \div 2]

InitHeap ==
  \E n \in 0..MaxHeap : \E vs \in [1..n -> Values] :
    /\ HeapOrdered(vs)
    /\ items = [i \in 1..n |-> <<vs[i], i - 1>>]
    /\ index = [i \in 1..n |-> Full(i - 1)]
    /\ next_index = n
    /\ panic = NoPanic
    /\ call = Call("heap", None, new, n, None, "none", None)
    /\ live = SetToBag({[idx |-> i - 1, val |-> vs[i]] : i \in 1..n})
    /\ stale = {}
    /\ trace = NoTrace
    /\ freed = <<>>
    /\ peak = n
    /\ DelayIdle
    /\ WasmIdle

NextHeap ==
  \/ \E t \in Values : call.op = "heap" /\ Push(t)
  \/ call.op = "heap" /\ Peek
  \/ call.op = "heap" /\ Pop
  \/ \E s \in BagToSet(live) : call.op = "heap" /\ Remove(s)

SpecHeap == InitHeap /\ [][NextHeap]_vars

\* ------------------------------------------- round trip: n pushes, n pops
RunPush(t) ==
  /\ trace.popped = <<>>
  /\ Len(trace.pushed) < MaxRun
  /\ PushCall(t)
  /\ trace' = [trace EXCEPT !.pushed = Append(@, t)]

RunPop ==
  /\ Len(trace.popped) < Len(trace.pushed)
  /\ PopCall(FALSE)
  /\ trace' = [trace EXCEPT !.popped = Append(@, pop(H).item)]

NextRun ==
  \/ \E t \in Values : RunPush(t)
  \/ RunPop

SpecRun == Init /\ [][NextRun]_vars

\* ====================================================== Delay and a clock
D == [duration |-> duration, time_start |-> time_start]

\* the last instant at which a first poll may begin, and the last instant
ClockEnd == MaxClock + MaxDur + 1

\* Delay::new(d) at instant 0, awaited by a task that is scheduled
InitDelay ==
  /\ HeapIdle
  /\ call = Call("new", None, new, 0, None, "none", None)
  /\ trace = NoTrace
  /\ WasmIdle
  /\ \E d \in 0..MaxDur :
       /\ duration = Delay_new(d).duration
       /\ time_start = Delay_new(d).time_start
       /\ asked = d
  /\ clock = 0
  /\ since = 0
  /\ first_poll = None
  /\ polled = NotPolled
  /\ woken = TRUE
  /\ resets = 0

\* time passes
Tick ==
  /\ clock < (IF time_start = None THEN MaxClock ELSE ClockEnd)
  /\ clock' = clock + 1
  /\ UNCHANGED <<duration, time_start, since, asked, first_poll, polled,
                 woken, resets, hvars, wvars>>

\* one call of poll. The executor has taken the task off its queue; the
\* task is queued again iff poll called the waker. adv is the time that
\* passes between the two Instant::now() of a poll that records the start.
DelayPoll(adv) ==
  /\ adv = 0 \/ time_start = None
  /\ LET r == poll(D, clock, clock + adv) IN
     /\ duration' = r.state.duration
     /\ time_start' = r.state.time_start
     /\ clock' = clock + adv
     /\ polled' = [ret |-> r.ret, at |-> clock + adv, prev |-> polled.prev]
     /\ woken' = r.wake
  /\ first_poll' = IF first_poll = None THEN Some(clock) ELSE first_poll
  /\ UNCHANGED <<since, asked, resets, hvars, wvars>>

\* Delay::reset(d), after which the Delay is awaited again
DelayReset(d) ==
  /\ resets < MaxResets
  /\ clock <= MaxClock
  /\ duration' = reset(D, d).duration
  /\ time_start' = reset(D, d).time_start
  /\ since' = clock
  /\ asked' = d
  /\ first_poll' = None
  /\ polled' = [ret |-> "none", at |-> 0, prev |-> polled.ret]
  /\ woken' = TRUE
  /\ resets' = resets + 1
  /\ UNCHANGED <<clock, hvars, wvars>>

\* any poll at any time (the Future contract allows spurious polls)
NextDelay ==
  \/ Tick
  \/ \E adv \in 0..1 : DelayPoll(adv)
  \/ \E d \in 0..MaxDur : DelayReset(d)

SpecDelay == InitDelay /\ [][NextDelay]_vars

\* an executor that polls the task when, and only when, it was woken; the
\* Delay is not reset
ExecutorPoll == \E adv \in 0..1 : woken /\ DelayPoll(adv)

NextExecutor ==
  \/ Tick
  \/ ExecutorPoll

SpecExecutor ==
  InitDelay /\ [][NextExecutor]_vars /\ WF_vars(Tick) /\ WF_vars(ExecutorPoll)

\* =========================================== wasm Delay::new(wasm_dur)
\* 2^32 ms = 4294967 s + 296 ms
WasmSecs == {0, 1, 2, 65535, 65536, 4294966, 4294967, 4294968, 8589934}

WasmNanos == {0, 999999, 1000000, 295999999, 296000000, 297000000,
              999999999}

InitWasm ==
  /\ HeapIdle
  /\ call = Call("new", None, new, 0, None, "none", None)
  /\ trace = NoTrace
  /\ DelayIdle
  /\ wasm_dur \in [secs : WasmSecs, nanos : WasmNanos]
  /\ wasm_ms = None

WasmNew ==
  /\ wasm_ms = None
  /\ wasm_ms' = Some(wasm_timeout(wasm_dur))
  /\ UNCHANGED <<wasm_dur, hvars, dvars>>

NextWasm == WasmNew

SpecWasm == InitWasm /\ [][NextWasm]_vars

\* ================================================================ claims
HeldVals == {s.val : s \in BagToSet(live)}

MinVal(S) == CHOOSE m \in S : \A x \in S : m <= x

FullIds == {h \in 0..(Len(index) - 1) : At(index, h).tag = "Full"}

\* C1: after every call, peek() is the minimum of the values held according
\* to the reference multiset live, and is None exactly when nothing is held.
PeekIsMinimum ==
  panic = NoPanic =>
    /\ (peek(H) = None) <=> (BagToSet(live) = {})
    /\ BagToSet(live) # {} => peek(H) = Some(MinVal(HeldVals))
    /\ call.op = "peek" => call.ret = peek(H)

PeekIsMinimumWitness ==
  /\ call.op = "peek"
  /\ call.ret = Some(2)
  /\ Len(items) >= 3
  /\ Len(index) > Len(items)

\* C4: heap property: every item at a position i > 0 is >= its parent at
\* position (i - 1) / 2, after every push, pop and remove.
HeapProperty ==
  panic = NoPanic =>
    \A i \in 1..(Len(items) - 1) :
      At(items, i)[1] >= At(items, (i - 1) \div 2)[1]

HeapPropertyWitness ==
  /\ call.op = "pop"
  /\ call.swaps = 2
  /\ Len(items) >= 6

\* C5: cross-reference: the slab entry of the handle id carried by the item
\* at position i is Full with value i, after every push, pop and remove.
CrossReference ==
  panic = NoPanic =>
    \A i \in 0..(Len(items) - 1) :
      /\ InRange(index, At(items, i)[2])
      /\ At(index, At(items, i)[2]) = Full(i)

CrossReferenceWitness ==
  /\ call.op = "push"
  /\ call.swaps >= 1
  /\ Len(index) > Len(items)
  /\ \E i \in 0..(Len(items) - 1) : At(items, i)[2] # i

\* C6: bijection: as many Full slab entries as items, distinct Full entries
\* hold distinct positions, and each of these positions is inside the array.
Bijection ==
  panic = NoPanic =>
    /\ Cardinality(FullIds) = Len(items)
    /\ \A a \in FullIds : InRange(items, At(index, a).value)
    /\ \A a \in FullIds : \A b \in FullIds :
         a # b => At(index, a).value # At(index, b).value

BijectionWitness ==
  /\ call.op = "push"
  /\ call.ret = Some(0)
  /\ Len(index) > Len(items)
  /\ Len(items) >= 2

\* C2: remove with a live Slot returns the value that was pushed with it and
\* removes only that item: the array holds exactly the items of the remaining
\* live Slots, and every live Slot addresses its own item through the slab.
RemoveReturnsPushed ==
  /\ (call.op = "remove" /\ call.slot = "live") =>
       (panic = NoPanic /\ call.ret = call.want)
  /\ panic = NoPanic =>
       /\ Len(items) = BagCardinality(live)
       /\ \A s \in BagToSet(live) :
            /\ CopiesIn(s, live) = 1
            /\ PosOf(s.idx) # None
            /\ InRange(items, PosOf(s.idx).some)
            /\ At(items, PosOf(s.idx).some) = <<s.val, s.idx>>

RemoveReturnsPushedWitness ==
  /\ call.op = "remove"
  /\ call.slot = "live"
  /\ call.ret = Some(3)
  /\ call.at = Some(1)
  /\ Len(items) >= 2
  /\ \E i \in 0..(Len(items) - 1) : At(items, i)[2] # i

\* C3: in a run of n pushes followed by pops, every pop returns a value that
\* is <= every value still held, the popped values are non-decreasing, and
\* after n pops they are the pushed values as a multiset and the heap is empty.
Count(seq, v) == Cardinality({i \in 1..Len(seq) : seq[i] = v})

RoundTripSorted ==
  /\ panic = NoPanic
  /\ \A i \in 1..Len(trace.popped) : trace.popped[i] # None
  /\ \A i \in 1..(Len(trace.popped) - 1) :
       trace.popped[i].some <= trace.popped[i + 1].some
  /\ Len(trace.popped) > 0 =>
       /\ call.op = "pop"
       /\ call.ret = trace.popped[Len(trace.popped)]
       /\ \A v \in HeldVals : call.ret.some <= v
  /\ Len(items) = Len(trace.pushed) - Len(trace.popped)
  /\ Len(trace.popped) = Len(trace.pushed) =>
       /\ items = <<>>
       /\ \A v \in Values :
            Count(trace.popped, Some(v)) = Count(trace.pushed, v)

RoundTripSortedWitness ==
  /\ Len(trace.pushed) >= 4
  /\ Len(trace.popped) = Len(trace.pushed)
  /\ trace.pushed[1] = 3
  /\ trace.pushed[2] = 1
  /\ trace.pushed[4] = 2

\* C7: a remove with a Slot whose item has left the heap panics and returns
\* nothing.
StaleSlotRejected ==
  (call.op = "remove" /\ call.slot = "stale") =>
    (call.ret = None /\ panic # NoPanic)

\* C8: pop and peek on an empty heap return None, do not panic and leave
\* items, index and next_index unchanged.
EmptyPopPeekNoEffect ==
  [][(Len(items) = 0 /\ panic = NoPanic /\ call'.op \in {"pop", "peek"}) =>
       /\ call'.ret = None
       /\ panic' = NoPanic
       /\ items' = items
       /\ index' = index
       /\ next_index' = next_index]_vars

EmptyPopPeekNoEffectWitness ==
  /\ call.op = "pop"
  /\ call.ret = None
  /\ panic = NoPanic
  /\ Len(index) >= 2
  /\ next_index < Len(index)

\* C9: when remove takes an item that is neither at the root nor at the last
\* position, the array it leaves equals the bottom-up heapify of the array as
\* it stands right after the swap_remove.
RECURSIVE HeapifyFrom(_, _)
HeapifyFrom(h, i) ==
  IF i < 0 THEN h ELSE HeapifyFrom(percolate_down(h, i), i - 1)

Heapify(its) ==
  HeapifyFrom([items |-> its, index |-> [k \in 1..Len(index) |-> Full(0)],
               next_index |-> 0, swaps |-> 0, panic |-> NoPanic],
              (Len(its) \div 2) - 1).items

LocalRepairEqualsHeapify ==
  [][(/\ call'.op = "remove"
      /\ call'.at # None
      /\ call'.at.some > 0
      /\ call'.at.some < Len(items) - 1) =>
       items' = Heapify(SwapRemove(items, call'.at.some))]_vars

LocalRepairEqualsHeapifyWitness ==
  /\ call.op = "remove"
  /\ call.at # None
  /\ call.at.some > 0
  /\ call.at.some < call.n
  /\ call.swaps >= 1
  /\ At(items, (call.at.some - 1) \div 2)[2] = call.n

\* C10: the percolation of a push, pop or remove makes at most floor(log2(n))
\* item swaps, n >= 1 being the array length while percolating; peek makes
\* none, and no call panics.
RECURSIVE Log2Floor(_)
Log2Floor(n) == IF n <= 1 THEN 0 ELSE 1 + Log2Floor(n \div 2)

LogarithmicSwaps ==
  /\ panic = NoPanic
  /\ call.op = "peek" => call.swaps = 0
  /\ call.op \in {"push", "pop", "remove"} =>
       IF call.n >= 1 THEN call.swaps <= Log2Floor(call.n)
       ELSE call.swaps = 0

LogarithmicSwapsWitness ==
  /\ call.op = "push"
  /\ call.n = 8
  /\ call.swaps = 3

\* C11: a poll returns Ready only at an instant that is at least the
\* duration after the creation or the latest reset of the Delay.
NeverFiresEarly ==
  polled.ret = "Ready" => polled.at >= since + asked

NeverFiresEarlyWitness ==
  /\ polled.ret = "Ready"
  /\ resets = 1
  /\ asked = 2
  /\ since >= 1
  /\ first_poll.some > since

\* C12: without a reset, every poll at an instant >= creation + duration
\* returns Ready.
FiresAtDuration ==
  (resets = 0 /\ polled.ret # "none" /\ polled.at >= since + asked) =>
    polled.ret = "Ready"

\* C18: a poll that returned Pending has woken the task, and under the
\* executor and a clock that keeps running the Delay eventually returns Ready.
NoLostWakeup ==
  /\ [](polled.ret = "Pending" => woken)
  /\ <>(polled.ret = "Ready")

NoLostWakeupWitness ==
  /\ polled.ret = "Ready"
  /\ asked = 2
  /\ first_poll.some >= 1
  /\ polled.at > first_poll.some

WasmTimeoutExact ==
  wasm_ms # None => wasm_ms = Some(as_millis(wasm_dur))

\* C13: a push reuses the most recently freed handle id, leaving the table
\* length unchanged, when a freed id exists, and otherwise issues the id
\* equal to the table length and grows the table by one; no call shrinks the
\* table, whose length is the largest number of items ever held at once.
HandleAllocation ==
  [][/\ Len(items') = Len(items) + 1 =>
          IF freed # <<>>
          THEN /\ call'.ret = Some(freed[Len(freed)])
               /\ Len(index') = Len(index)
          ELSE /\ call'.ret = Some(Len(index))
               /\ Len(index') = Len(index) + 1
     /\ Len(items') <= Len(items) => Len(index') = Len(index)
     /\ Len(index') = peak']_vars

HandleAllocationWitness ==
  /\ call.op = "push"
  /\ call.ret = Some(2)
  /\ freed = <<0>>
  /\ Len(index) = 3

\* C14: the next links from next_index visit every Empty slab entry exactly
\* once, visit no Full entry and end at index.len(); next_index = index.len()
\* exactly when every entry is Full.
EmptyIds == {h \in 0..(Len(index) - 1) : At(index, h).tag = "Empty"}

\* the ids visited from i, ending with -1 if the walk meets a Full entry,
\* leaves the table or does not end within fuel steps
RECURSIVE FreeChain(_, _)
FreeChain(i, fuel) ==
  IF i = Len(index) THEN <<>>
  ELSE IF fuel = 0 \/ ~InRange(index, i) \/ At(index, i).tag = "Full"
       THEN <<-1>>
       ELSE <<i>> \o FreeChain(At(index, i).next, fuel - 1)

FreeListWellFormed ==
  panic = NoPanic =>
    LET c == FreeChain(next_index, Len(index)) IN
    /\ \A k \in 1..Len(c) : c[k] # -1
    /\ {c[k] : k \in 1..Len(c)} = EmptyIds
    /\ Len(c) = Cardinality(EmptyIds)
    /\ (next_index = Len(index)) <=> (EmptyIds = {})

FreeListWellFormedWitness ==
  /\ Cardinality(EmptyIds) >= 2
  /\ Len(items) >= 1
  /\ At(index, next_index).next > next_index
  /\ At(index, next_index).next < Len(index)
  /\ call.op = "remove"

\* C15: in a remove that moves the last item into the vacated position idx,
\* a moved value smaller than the removed one is <= both children of idx and
\* percolate_up alone gives the array remove leaves; a moved value >= the
\* removed one is >= the parent of idx and percolate_down alone gives that
\* array; and the heap property holds at every position afterwards.
RefHeap(its) ==
  [items |-> its, index |-> [k \in 1..Len(index) |-> Full(0)],
   next_index |-> 0, swaps |-> 0, panic |-> NoPanic]

SingleRepairPass ==
  [][(/\ call'.op \in {"remove", "pop"}
      /\ call'.at # None
      /\ call'.at.some < Len(items) - 1) =>
       LET idx == call'.at.some
           a == SwapRemove(items, idx)
           moved == At(a, idx)[1]
           gone == At(items, idx)[1]
       IN /\ moved < gone =>
               /\ \A c \in {2 * idx + 1, 2 * idx + 2} :
                    InRange(a, c) => moved <= At(a, c)[1]
               /\ items' = percolate_up(RefHeap(a), idx).items
          /\ moved >= gone =>
               /\ idx = 0 \/ moved >= At(a, (idx - 1) \div 2)[1]
               /\ items' = percolate_down(RefHeap(a), idx).items
          /\ \A i \in 1..(Len(items') - 1) :
               At(items', i)[1] >= At(items', (i - 1) \div 2)[1]]_vars

SingleRepairPassWitness ==
  /\ call.op = "remove"
  /\ call.at # None
  /\ call.at.some > 0
  /\ call.swaps >= 1
  /\ \E c \in {2 * call.at.some + 1, 2 * call.at.some + 2} :
       InRange(items, c) /\ At(items, c)[2] = call.n

\* C16: while the caller respects the handle contract no internal check
\* fires: no call panics.
NoInternalCheckFires == panic = NoPanic

NoInternalCheckFiresWitness ==
  /\ panic = NoPanic
  /\ call.op = "remove"
  /\ call.swaps >= 1
  /\ Len(index) > Len(items) + 1
  /\ Len(freed) >= 2
  /\ freed[1] > freed[2]

\* C17: remove with a Slot whose slab entry is Empty panics, returns nothing
\* and leaves the item array as it was.
DoubleRemovePanics ==
  [][\A i \in stale :
       (/\ call'.slot = "stale"
        /\ i \notin stale'
        /\ InRange(index, i)
        /\ At(index, i).tag = "Empty") =>
         /\ panic' = "remove"
         /\ call'.ret = None
         /\ items' = items]_vars

DoubleRemovePanicsWitness ==
  /\ panic = "remove"
  /\ call.op = "remove"
  /\ call.slot = "stale"
  /\ Len(items) >= 2

====
